---- MODULE Spec2Model ----
(***************************************************************************)
(* Road Accident Intelligence dashboard (src/app.py): the cleaning         *)
(* pipeline load_and_clean, the filter engine apply_filters and the case   *)
(* aggregators, as one state machine over a Streamlit script run.          *)
(*                                                                         *)
(* Representation.  A text cell is a sequence of one-character strings;    *)
(* the missing cell (pandas NaN) is the one-element sequence NaN, whose    *)
(* element is no character.  An optional number or date is a sequence of   *)
(* length 0 (absent: NaN, NaT, <NA>) or a tuple holding the value.         *)
(***************************************************************************)
EXTENDS Integers, Sequences, FiniteSets, TLC

VARIABLES source,      \* the CSV file behind data_source: the header of its key column and its rows of text cells
          cache,       \* st.cache_data store of load_and_clean: <<>> or <<[df, stats]>>
          transforms,  \* how many times the body of load_and_clean has run
          reruns,      \* how many script reruns (user interactions) have happened
          pc,          \* position of the current script run
          df,          \* cleaned table of the current run
          cleaning_stats, \* diagnostics of the current run
          df_filt,     \* filtered table of the current run
          widgets,     \* the values of the sidebar widgets as apply_filters read them
          selections,  \* the dictionary apply_filters returned in the current run
          view,        \* the table the selected case computed in the current run
          names        \* a column header followed by its successive images under _snake_case

vars == <<source, cache, transforms, reruns, pc, df, cleaning_stats, df_filt, widgets, selections, view, names>>

---------------------------------------------------------------------------
(* Bounds of the model *)

\* longest run of whitespace put around a text cell
MaxPad == 1
\* most rows of a source that exercises deduplication
MaxRows == 4
\* most sidebar widgets the user has moved away from their default in one run
MaxActive == 1
\* most script reruns after the first run
MaxReruns == 1
\* longest column header given to the schema normalizer
MaxName == 4
\* most applications of the schema normalizer to one header
MaxCalls == 2

---------------------------------------------------------------------------
(* Characters and strings *)

NaN == <<"NaN">>
NA == <<>>

LowerLetters == <<"a","b","c","d","e","f","g","h","i","j","k","l","m",
                  "n","o","p","q","r","s","t","u","v","w","x","y","z">>
UpperLetters == <<"A","B","C","D","E","F","G","H","I","J","K","L","M",
                  "N","O","P","Q","R","S","T","U","V","W","X","Y","Z">>
DigitChars == <<"0","1","2","3","4","5","6","7","8","9">>
Whitespace == {" ", "\t", "\n", "\r", "\f"}

IsUpper(c) == \E i \in 1..26 : UpperLetters[i] = c
IsLower(c) == \E i \in 1..26 : LowerLetters[i] = c
IsDigit(c) == \E i \in 1..10 : DigitChars[i] = c
DigitVal(c) == (CHOOSE i \in 1..10 : DigitChars[i] = c) - 1

\* str.lower() and str.upper() on one ASCII character
LowerChar(c) == IF IsUpper(c) THEN LowerLetters[CHOOSE i \in 1..26 : UpperLetters[i] = c] ELSE c
UpperChar(c) == IF IsLower(c) THEN UpperLetters[CHOOSE i \in 1..26 : LowerLetters[i] = c] ELSE c

isna(x) == x = NaN

\* str.strip(): drop leading and trailing whitespace
RECURSIVE lstrip(_)
lstrip(s) == IF s # <<>> /\ Head(s) \in Whitespace THEN lstrip(Tail(s)) ELSE s
RECURSIVE rstrip(_)
rstrip(s) == IF s # <<>> /\ s[Len(s)] \in Whitespace THEN rstrip(SubSeq(s, 1, Len(s) - 1)) ELSE s
strip(s) == rstrip(lstrip(s))

\* str.lower()
lower(s) == [i \in 1..Len(s) |-> LowerChar(s[i])]

\* str.capitalize(): first character upper case, the rest lower case
capitalize(s) == [i \in 1..Len(s) |-> IF i = 1 THEN UpperChar(s[i]) ELSE LowerChar(s[i])]

\* the Python operator `sub in s`
contains(s, sub) == \E i \in 1..(Len(s) - Len(sub) + 1) : SubSeq(s, i, i + Len(sub) - 1) = sub

---------------------------------------------------------------------------
(* Text constants of the program *)

Unknown == <<"U","n","k","n","o","w","n">>
Fatal == <<"F","a","t","a","l">>
Serious == <<"S","e","r","i","o","u","s">>
Slight == <<"S","l","i","g","h","t">>
fetal == <<"f","e","t","a","l">>
Severities == {Fatal, Serious, Slight}

w_nan == <<"n","a","n">>
w_none == <<"n","o","n","e">>
w_null == <<"n","u","l","l">>
w_missing == <<"m","i","s","s","i","n","g">>
w_out_of_range == <<"o","u","t"," ","o","f"," ","r","a","n","g","e">>

Monday == <<"M","o","n","d","a","y">>
Tuesday == <<"T","u","e","s","d","a","y">>
Wednesday == <<"W","e","d","n","e","s","d","a","y">>
Thursday == <<"T","h","u","r","s","d","a","y">>
Friday == <<"F","r","i","d","a","y">>
Saturday == <<"S","a","t","u","r","d","a","y">>
Sunday == <<"S","u","n","d","a","y">>
DOW_ORDER == <<Monday, Tuesday, Wednesday, Thursday, Friday, Saturday, Sunday>>
DowSet == {DOW_ORDER[i] : i \in 1..7}

SEVERITY_SCORE_unknown_as_zero(s) == IF s = Slight THEN <<1>> ELSE IF s = Serious THEN <<2>> ELSE IF s = Fatal THEN <<3>> ELSE <<0>>
SEVERITY_SCORE(s) == IF s = Slight THEN <<1>> ELSE IF s = Serious THEN <<2>> ELSE IF s = Fatal THEN <<3>> ELSE NA

---------------------------------------------------------------------------
(* Category repair *)

_clean_category_no_strip(x) == IF isna(x) THEN Unknown ELSE
    LET s == x
        s_low == lower(s)
    IN IF s = <<>> \/ s_low \in {w_nan, w_none, w_null} THEN Unknown
       ELSE IF contains(s_low, w_missing) \/ contains(s_low, w_out_of_range) THEN Unknown
       ELSE s

_clean_category(x) == IF isna(x) THEN Unknown ELSE
    LET s == strip(x)
        s_low == lower(s)
    IN IF s = <<>> \/ s_low \in {w_nan, w_none, w_null} THEN Unknown
       ELSE IF contains(s_low, w_missing) \/ contains(s_low, w_out_of_range) THEN Unknown
       ELSE s

_fix_severity_no_typo(x) == IF isna(x) THEN Unknown ELSE
    LET s_low == lower(strip(x))
        s == capitalize(s_low)
    IN IF s \in {Fatal, Serious, Slight} THEN s ELSE Unknown

_fix_severity(x) == IF isna(x) THEN Unknown ELSE
    LET s_low == lower(strip(x))
        s == capitalize(s_low)
    IN IF s_low = fetal THEN Fatal
       ELSE IF s \in {Fatal, Serious, Slight} THEN s ELSE Unknown

---------------------------------------------------------------------------
(* Schema normalizer *)

IsAlnum(c) == IsUpper(c) \/ IsLower(c) \/ IsDigit(c)

RECURSIVE DropNonAlnum(_)
DropNonAlnum(s) == IF s # <<>> /\ ~IsAlnum(Head(s)) THEN DropNonAlnum(Tail(s)) ELSE s

\* re.sub(r"[^0-9a-zA-Z]+", "_", name)
RECURSIVE SubNonAlnum(_)
SubNonAlnum(s) == IF s = <<>> THEN <<>>
                  ELSE IF IsAlnum(Head(s)) THEN <<Head(s)>> \o SubNonAlnum(Tail(s))
                  ELSE <<"_">> \o SubNonAlnum(DropNonAlnum(s))

\* re.sub(r"_+", "_", name)
RECURSIVE CollapseUnderscores(_)
CollapseUnderscores(s) == IF Len(s) < 2 THEN s
                          ELSE IF s[1] = "_" /\ s[2] = "_" THEN CollapseUnderscores(Tail(s))
                          ELSE <<Head(s)>> \o CollapseUnderscores(Tail(s))

\* str.strip("_")
RECURSIVE StripUnderscores(_)
StripUnderscores(s) == IF s # <<>> /\ Head(s) = "_" THEN StripUnderscores(Tail(s))
                       ELSE IF s # <<>> /\ s[Len(s)] = "_" THEN StripUnderscores(SubSeq(s, 1, Len(s) - 1))
                       ELSE s

_snake_case_strip_first(name) == lower(CollapseUnderscores(SubNonAlnum(StripUnderscores(strip(name)))))
_snake_case(name) == lower(StripUnderscores(CollapseUnderscores(SubNonAlnum(strip(name)))))

accident_index == <<"a","c","c","i","d","e","n","t","_","i","n","d","e","x">>

---------------------------------------------------------------------------
(* Temporal parser *)

\* the value of a numeral, a non-empty sequence of digit characters
RECURSIVE NumVal(_)
NumVal(t) == IF t = <<>> THEN 0 ELSE 10 * NumVal(SubSeq(t, 1, Len(t) - 1)) + DigitVal(t[Len(t)])

AllDigits(t) == \A i \in 1..Len(t) : IsDigit(t[i])

\* the strptime directives of the format "%d-%m-%Y" as regular expressions:
\* %d is 3[0-1]|[1-2]\d|0[1-9]|[1-9]| [1-9], %m is 1[0-2]|0[1-9]|[1-9], %Y is \d\d\d\d
MatchDay(t) == \/ Len(t) = 2 /\ AllDigits(t) /\ NumVal(t) \in 1..31
               \/ Len(t) = 1 /\ AllDigits(t) /\ NumVal(t) \in 1..9
               \/ Len(t) = 2 /\ t[1] = " " /\ IsDigit(t[2]) /\ DigitVal(t[2]) \in 1..9
MatchMonth(t) == \/ Len(t) = 2 /\ AllDigits(t) /\ NumVal(t) \in 1..12
                 \/ Len(t) = 1 /\ AllDigits(t) /\ NumVal(t) \in 1..9
MatchYear(t) == Len(t) = 4 /\ AllDigits(t)
DayVal(t) == IF t[1] = " " THEN DigitVal(t[2]) ELSE NumVal(t)

IsLeap(y) == (y % 4 = 0 /\ y % 100 # 0) \/ y % 400 = 0
DaysInMonth(y, m) == IF m = 2 THEN (IF IsLeap(y) THEN 29 ELSE 28)
                     ELSE IF m \in {4, 6, 9, 11} THEN 30 ELSE 31

\* pd.to_datetime(x, format="%d-%m-%Y", errors="coerce") on one cell:
\* the date <<year, month, day>>, or NA (NaT) when the cell is missing or does not parse
to_datetime(x) ==
    IF isna(x) THEN NA ELSE
    LET dashes == {i \in 1..Len(x) : x[i] = "-"} IN
    IF Cardinality(dashes) # 2 THEN NA ELSE
    LET p1 == CHOOSE i \in dashes : \A j \in dashes : i <= j
        p2 == CHOOSE i \in dashes : \A j \in dashes : j <= i
        dd == SubSeq(x, 1, p1 - 1)
        mm == SubSeq(x, p1 + 1, p2 - 1)
        yy == SubSeq(x, p2 + 1, Len(x))
    IN IF ~(MatchDay(dd) /\ MatchMonth(mm) /\ MatchYear(yy)) THEN NA
       ELSE IF NumVal(yy) < 1 \/ DayVal(dd) > DaysInMonth(NumVal(yy), NumVal(mm)) THEN NA
       ELSE <<NumVal(yy), NumVal(mm), DayVal(dd)>>

\* days since 1970-01-01 of a calendar date
DaysFromCivil(d) ==
    LET y == IF d[2] <= 2 THEN d[1] - 1 ELSE d[1]
        era == y \div 400
        yoe == y - era * 400
        mp == IF d[2] > 2 THEN d[2] - 3 ELSE d[2] + 9
        doy == (153 * mp + 2) \div 5 + d[3] - 1
        doe == yoe * 365 + yoe \div 4 - yoe \div 100 + doy
    IN era * 146097 + doe - 719468

\* Series.dt.year, .dt.month, .dt.day_name(): NaN for NaT
dt_year(d) == IF d = NA THEN NA ELSE <<d[1]>>
dt_month(d) == IF d = NA THEN NA ELSE <<d[2]>>
dt_day_name(d) == IF d = NA THEN NaN ELSE DOW_ORDER[((DaysFromCivil(d) + 3) % 7) + 1]

\* Series.dt.to_period("M").astype(str): "YYYY-MM", and the text "NaT" for NaT
NaT_text == <<"N","a","T">>
Digit(n) == DigitChars[n + 1]
period_M_str(d) ==
    IF d = NA THEN NaT_text
    ELSE <<Digit(d[1] \div 1000), Digit((d[1] \div 100) % 10), Digit((d[1] \div 10) % 10), Digit(d[1] % 10),
           "-", Digit(d[2] \div 10), Digit(d[2] % 10)>>

\* pd.Categorical(values, categories=DOW_ORDER): a value that is no category becomes NaN
Categorical(v) == IF v \in DowSet THEN v ELSE NaN

\* date order, for Series.min/max and the comparisons of apply_filters
DateLE(a, b) == DaysFromCivil(a) <= DaysFromCivil(b)

---------------------------------------------------------------------------
(* Numerics *)

\* pd.to_numeric(x, errors="coerce") on one cell, in tenths: the model's numeric
\* cells are unsigned decimal numerals with at most one fractional digit
to_numeric(x) ==
    IF isna(x) \/ x = <<>> THEN NA
    ELSE IF AllDigits(x) THEN <<10 * NumVal(x)>>
    ELSE IF Len(x) >= 3 /\ x[Len(x) - 1] = "." /\ AllDigits(SubSeq(x, 1, Len(x) - 2)) /\ IsDigit(x[Len(x)])
         THEN <<10 * NumVal(SubSeq(x, 1, Len(x) - 2)) + DigitVal(x[Len(x)])>>
    ELSE NA

\* Series.round().astype("Int64"): round half to even, <NA> kept
round_Int64(t) ==
    IF t = NA THEN NA
    ELSE LET q == t[1] \div 10
             r == t[1] % 10
         IN IF r < 5 THEN <<q>> ELSE IF r > 5 THEN <<q + 1>> ELSE IF q % 2 = 0 THEN <<q>> ELSE <<q + 1>>

---------------------------------------------------------------------------
(* Sequences *)

RECURSIVE SortedSeq(_)
SortedSeq(S) == IF S = {} THEN <<>>
                ELSE LET m == CHOOSE x \in S : \A y \in S : x <= y
                     IN <<m>> \o SortedSeq(S \ {m})

\* the rows of seq at the positions S, in their order in seq
RowsAt(seq, S) == LET idx == SortedSeq(S) IN [k \in 1..Len(idx) |-> seq[idx[k]]]

RECURSIVE SeqsUpTo(_, _)
SeqsUpTo(S, n) == IF n = 0 THEN {<<>>}
                  ELSE LET shorter == SeqsUpTo(S, n - 1)
                       IN shorter \cup {Append(q, x) : q \in {r \in shorter : Len(r) = n - 1}, x \in S}

---------------------------------------------------------------------------
(* Pipeline orchestrator *)

\* the cells pd.read_csv reads as NaN by default, among those the model can write
NaValues == {<<>>, <<"N","A">>, <<"N","U","L","L">>, <<"N","a","N">>, <<"N","o","n","e">>,
             <<"n","a","n">>, <<"n","u","l","l">>, <<"N","/","A">>, <<"n","/","a">>}
read_cell(c) == IF c \in NaValues THEN NaN ELSE c

\* pd.read_csv(data_source): every cell of the file, missing ones as NaN
read_csv(rows) == [i \in 1..Len(rows) |-> [f \in DOMAIN rows[i] |-> read_cell(rows[i][f])]]

\* DataFrame.duplicated(subset=["accident_index"]): the rows with an earlier row of the same key
duplicated(raw) == {i \in 1..Len(raw) : \E j \in 1..(i - 1) : raw[j].key = raw[i].key}

\* DataFrame.drop_duplicates(subset=["accident_index"], keep="first"): the positions kept
drop_duplicates_keep_last(raw) == {i \in 1..Len(raw) : ~\E j \in (i + 1)..Len(raw) : raw[j].key = raw[i].key}
drop_duplicates(raw) == {i \in 1..Len(raw) : ~\E j \in 1..(i - 1) : raw[j].key = raw[i].key}

\* lines 246-249: the source column repaired, Unknown replaced by the derived day
\* name (Unknown when there is none), then cast to the categorical of DOW_ORDER
day_of_week(cell, day_name) ==
    LET c == _clean_category(cell)
        v == IF c = Unknown THEN (IF isna(day_name) THEN Unknown ELSE day_name) ELSE c
    IN Categorical(v)

\* the listed categorical columns (cat_cols) that the model carries
cat_cols == {"urban_or_rural_area", "local_authority_district", "weather_conditions",
             "light_conditions", "road_type", "vehicle_type", "road_surface_conditions"}

\* one cleaned record; index is the row label pandas keeps from the raw frame
clean_row(r, i) ==
    LET d == to_datetime(r.accident_date)
        sev == _fix_severity(r.accident_severity)
    IN [index |-> i - 1,
        key |-> r.key,
        accident_severity |-> sev,
        accident_date |-> d,
        year |-> dt_year(d),
        month |-> period_M_str(d),
        month_num |-> dt_month(d),
        day_name |-> dt_day_name(d),
        day_of_week |-> day_of_week(r.day_of_week, dt_day_name(d)),
        urban_or_rural_area |-> _clean_category(r.urban_or_rural_area),
        local_authority_district |-> _clean_category(r.local_authority_district),
        weather_conditions |-> _clean_category(r.weather_conditions),
        light_conditions |-> _clean_category(r.light_conditions),
        road_type |-> _clean_category(r.road_type),
        vehicle_type |-> _clean_category(r.vehicle_type),
        road_surface_conditions |-> _clean_category(r.road_surface_conditions),
        speed_limit |-> round_Int64(to_numeric(r.speed_limit)),
        severity_score |-> SEVERITY_SCORE(sev)]

\* the body of load_and_clean: (cleaned table, diagnostics)
transform(src) ==
    LET raw == read_csv(src.rows)
        has_index == _snake_case(src.key_header) = accident_index
        kept == IF has_index THEN drop_duplicates(raw) ELSE 1..Len(raw)
        table == RowsAt([i \in 1..Len(raw) |-> clean_row(raw[i], i)], kept)
    IN [df |-> table,
        stats |-> [rows_raw |-> Len(raw),
                   duplicates_accident_index |-> IF has_index THEN Cardinality(duplicated(raw)) ELSE 0,
                   date_parse_na |-> Cardinality({k \in 1..Len(table) : table[k].accident_date = NA}),
                   rows_clean |-> Len(table)]]

NoStats == [rows_raw |-> 0, duplicates_accident_index |-> 0, date_parse_na |-> 0, rows_clean |-> 0]
NoWidgets == [date_range |-> NA, severity |-> {}, urban |-> {}, speed_limit |-> {}, district |-> {},
              weather |-> {}, light |-> {}, road_type |-> {}, vehicle_type |-> {},
              top_n_district |-> 0, case |-> 0]
NoSelections == [date_range |-> NA, severity |-> {}, urban |-> {}, speed_limit |-> {}, district |-> {},
                 top_n_district |-> 0, case |-> 0]
NoView == [case |-> 0, info |-> FALSE, table |-> <<>>]

\* st.cache_data around load_and_clean, as the script calls it at lines 421-422:
\* the body runs when the store has no entry for data_source, else the stored value is returned
load_uncached ==
    /\ pc = "start"
    /\ LET r == transform(source)
       IN /\ cache' = <<r>>
          /\ transforms' = transforms + 1
          /\ df' = r.df
          /\ cleaning_stats' = r.stats
    /\ pc' = "loaded"
    /\ UNCHANGED <<names, source, reruns, df_filt, widgets, selections, view>>

load_and_clean ==
    /\ pc = "start"
    /\ IF cache = <<>>
       THEN LET r == transform(source)
            IN /\ cache' = <<r>>
               /\ transforms' = transforms + 1
               /\ df' = r.df
               /\ cleaning_stats' = r.stats
       ELSE /\ df' = cache[1].df
            /\ cleaning_stats' = cache[1].stats
            /\ UNCHANGED <<cache, transforms>>
    /\ pc' = "loaded"
    /\ UNCHANGED <<names, source, reruns, df_filt, widgets, selections, view>>

\* a user interaction: Streamlit runs the script again from the top; only the
\* cache store outlives the run
rerun ==
    /\ pc # "start"
    /\ reruns < MaxReruns
    /\ reruns' = reruns + 1
    /\ pc' = "start"
    /\ df' = <<>>
    /\ cleaning_stats' = NoStats
    /\ df_filt' = <<>>
    /\ widgets' = NoWidgets
    /\ selections' = NoSelections
    /\ view' = NoView
    /\ UNCHANGED <<names, source, cache, transforms>>

StartOn(sources) ==
    /\ source \in sources
    /\ cache = <<>>
    /\ transforms = 0
    /\ reruns = 0
    /\ pc = "start"
    /\ df = <<>>
    /\ cleaning_stats = NoStats
    /\ df_filt = <<>>
    /\ widgets = NoWidgets
    /\ selections = NoSelections
    /\ view = NoView
    /\ names = <<>>

---------------------------------------------------------------------------
(* Sources for the cleaning pipeline *)

T_Accident_Index == <<"A","c","c","i","d","e","n","t","_","I","n","d","e","x">>
T_Accident_Index_spaced == <<" ","A","c","c","i","d","e","n","t"," ","I","n","d","e","x">>
T_Index == <<"I","n","d","e","x">>
T_Urban == <<"U","r","b","a","n">>
T_Rural == <<"R","u","r","a","l">>
T_Leeds == <<"L","e","e","d","s">>
T_York == <<"Y","o","r","k">>
T_Fine == <<"F","i","n","e">>
T_Rain == <<"R","a","i","n">>
T_Daylight == <<"D","a","y","l","i","g","h","t">>
T_Dark == <<"D","a","r","k">>
T_Single == <<"S","i","n","g","l","e">>
T_Dual == <<"D","u","a","l">>
T_Car == <<"C","a","r">>
T_Van == <<"V","a","n">>
T_Dry == <<"D","r","y">>
T_Wet == <<"W","e","t">>
T_30 == <<"3","0">>
T_60 == <<"6","0">>
T_29_5 == <<"2","9",".","5">>
T_30_12_2020 == <<"3","0","-","1","2","-","2","0","2","0">>
T_31_12_2020 == <<"3","1","-","1","2","-","2","0","2","0">>
T_01_01_2021 == <<"0","1","-","0","1","-","2","0","2","1">>
T_2020_12_31 == <<"2","0","2","0","-","1","2","-","3","1">>

\* an ordinary row of the file
BaseRow == [key |-> <<"A">>, accident_severity |-> Slight, accident_date |-> T_31_12_2020,
            day_of_week |-> Thursday, urban_or_rural_area |-> T_Urban, speed_limit |-> T_30,
            local_authority_district |-> T_Leeds, weather_conditions |-> T_Fine,
            light_conditions |-> T_Daylight, road_type |-> T_Single, vehicle_type |-> T_Car,
            road_surface_conditions |-> T_Dry]

\* every way of writing a word in upper and lower case
CaseVariants(w) == {[i \in 1..Len(w) |-> IF i \in U THEN UpperChar(w[i]) ELSE w[i]] : U \in SUBSET (1..Len(w))}
\* the word in lower case, in upper case and capitalized
ThreeCases(w) == {w, [i \in 1..Len(w) |-> UpperChar(w[i])], [i \in 1..Len(w) |-> IF i = 1 THEN UpperChar(w[i]) ELSE w[i]]}
Pads == SeqsUpTo({" ", "\t"}, MaxPad)
Padded(W) == {l \o w \o r : l \in Pads, w \in W, r \in Pads}

\* severity cells: every case of the typo and of the three spellings, some other words
SeverityWords == CaseVariants(fetal) \cup CaseVariants(lower(Fatal)) \cup CaseVariants(lower(Serious))
                 \cup CaseVariants(lower(Slight))
                 \cup UNION {ThreeCases(w) : w \in
    {<<"c","a","t","a","s","t","r","o","p","h","i","c">>,
     <<"f","a","t","a","l","i","t","y">>,
     <<"f","e","t","a","l","s">>,
     <<"f","e"," ","t","a","l">>,
     <<"m","i","n","o","r">>,
     <<"s">>}}
SeverityCells == Padded(SeverityWords) \cup {<<>>}

\* categorical cells: the placeholders in every case, ordinary values, near misses
CategoryWords == CaseVariants(w_nan) \cup CaseVariants(w_none) \cup CaseVariants(w_null) \cup CaseVariants(lower(T_Dry))
                 \cup UNION {ThreeCases(w) : w \in
    {<<"m","i","s","s","i","n","g">>,
     <<"d","a","t","a"," ","m","i","s","s","i","n","g"," ","o","r"," ","o","u","t"," ","o","f"," ","r","a","n","g","e">>,
     <<"o","u","t"," ","o","f"," ","r","a","n","g","e">>,
     <<"o","u","t","o","f","r","a","n","g","e">>,
     <<"o","u","t"," "," ","o","f"," ","r","a","n","g","e">>,
     <<"v","a","l","u","e"," ","m","i","s","s","i","n","g">>,
     <<"n","a","n","o">>,
     <<"n","u","l","l","s">>,
     <<"w","e","t"," ","o","r"," ","d","a","m","p">>,
     <<"n","a">>,
     <<>>}}
CategoryCells == Padded(CategoryWords)

DateCells ==
    {<<"3","1","-","1","2","-","2","0","2","0">>,
     <<"3","0","-","1","2","-","2","0","2","0">>,
     <<"0","1","-","0","1","-","2","0","2","1">>,
     <<"2","0","2","0","-","1","2","-","3","1">>,
     <<"3","1","/","1","2","/","2","0","2","0">>,
     <<"1","-","1","-","2","0","2","1">>,
     <<"2","9","-","0","2","-","2","0","2","0">>,
     <<"2","9","-","0","2","-","2","0","2","1">>,
     <<"3","1","-","0","4","-","2","0","2","0">>,
     <<"0","0","-","0","1","-","2","0","2","0">>,
     <<"3","2","-","0","1","-","2","0","2","0">>,
     <<"1","5","-","1","3","-","2","0","2","0">>,
     <<"3","1","-","1","2","-","2","0">>,
     <<"3","1","-","1","2","-","2","0","2","0"," ">>,
     <<" ","1","-","0","1","-","2","0","2","1">>,
     <<"0","1","-","0","1","-","0","0","0","0">>,
     <<>>,
     <<"3","1","-","1","2">>,
     <<"N","a","T">>}

DowCells ==
    {<<>>,
     <<"M","o","n","d","a","y">>,
     <<"m","o","n","d","a","y">>,
     <<" ","F","r","i","d","a","y"," ">>,
     <<"M","o","n">>,
     <<"S","U","N","D","A","Y">>,
     <<"S","u","n","d","a","y">>,
     <<"D","a","t","a"," ","m","i","s","s","i","n","g"," ","o","r"," ","o","u","t"," ","o","f"," ","r","a","n","g","e">>,
     <<"F","u","n","d","a","y">>}

KeyCells == {<<"A">>, <<"B">>, <<>>}
KeyHeaders == {T_Accident_Index, T_Accident_Index_spaced, T_Index}
\* the headers that _snake_case turns into accident_index
IndexHeaders == {T_Accident_Index, T_Accident_Index_spaced}

SeveritySources == {[key_header |-> T_Accident_Index, rows |-> <<[BaseRow EXCEPT !.accident_severity = c]>>] :
                    c \in SeverityCells}
CategorySources == {[key_header |-> T_Accident_Index,
                     rows |-> <<[BaseRow EXCEPT !.urban_or_rural_area = c, !.local_authority_district = c,
                                                !.weather_conditions = c, !.light_conditions = c, !.road_type = c,
                                                !.vehicle_type = c, !.road_surface_conditions = c]>>] :
                    c \in CategoryCells}
DateSources == {[key_header |-> T_Accident_Index,
                 rows |-> <<[BaseRow EXCEPT !.accident_date = d, !.day_of_week = w]>>] :
                d \in DateCells, w \in DowCells}
DedupRows == {[BaseRow EXCEPT !.key = k] : k \in KeyCells}
DedupSources == {[key_header |-> h, rows |-> q] : h \in KeyHeaders, q \in SeqsUpTo(DedupRows, MaxRows)}

CleanSources == SeveritySources \cup CategorySources \cup DateSources \cup DedupSources

\* column headers: every text of up to MaxName characters over a letter in both
\* cases, a digit, the underscore, a blank and a dash, and headers of the dataset
HeaderChars == {"A", "a", "1", "_", " ", "-"}
HeaderNames == SeqsUpTo(HeaderChars, MaxName)
               \cup {T_Accident_Index, T_Accident_Index_spaced, T_Index,
                     <<" ","R","o","a","d","_","_","T","y","p","e","-"," ">>,
                     <<"S","p","e","e","d"," ","l","i","m","i","t"," ","(","m","p","h",")">>}

\* _snake_case alone: one header, normalized again and again
InitHeader ==
    /\ source = [key_header |-> <<>>, rows |-> <<>>]
    /\ cache = <<>>
    /\ transforms = 0
    /\ reruns = 0
    /\ pc = "start"
    /\ df = <<>>
    /\ cleaning_stats = NoStats
    /\ df_filt = <<>>
    /\ widgets = NoWidgets
    /\ selections = NoSelections
    /\ view = NoView
    /\ \E h \in HeaderNames : names = <<h>>

snake_case_call ==
    /\ names # <<>>
    /\ Len(names) <= MaxCalls
    /\ names' = Append(names, _snake_case(names[Len(names)]))
    /\ UNCHANGED <<source, cache, transforms, reruns, pc, df, cleaning_stats, df_filt, widgets, selections, view>>

NextHeader == snake_case_call
SpecHeader == InitHeader /\ [][NextHeader]_vars

InitClean == StartOn(CleanSources)
NextClean == load_and_clean
SpecClean == InitClean /\ [][NextClean]_vars

---------------------------------------------------------------------------
(* Filter engine *)

\* the calendar date of a day number (inverse of DaysFromCivil)
CivilFromDays(n) ==
    LET z == n + 719468
        era == z \div 146097
        doe == z - era * 146097
        yoe == (doe - doe \div 1460 + doe \div 36524 - doe \div 146096) \div 365
        doy == doe - (365 * yoe + yoe \div 4 - yoe \div 100)
        mp == (5 * doy + 2) \div 153
        d == doy - (153 * mp + 2) \div 5 + 1
        m == IF mp < 10 THEN mp + 3 ELSE mp - 9
    IN <<IF m <= 2 THEN yoe + era * 400 + 1 ELSE yoe + era * 400, m, d>>

\* df["accident_date"].min() and .max(): NaT is skipped; NA when no date is left
Dates(f) == {f[k].accident_date : k \in 1..Len(f)} \ {NA}
date_min(f) == IF Dates(f) = {} THEN NA ELSE CHOOSE d \in Dates(f) : \A e \in Dates(f) : DateLE(d, e)
date_max(f) == IF Dates(f) = {} THEN NA ELSE CHOOSE d \in Dates(f) : \A e \in Dates(f) : DateLE(e, d)

\* what st.date_input can return between min_value and max_value: a pair (start, end)
DateRanges(f) ==
    LET days == {CivilFromDays(n) : n \in DaysFromCivil(date_min(f))..DaysFromCivil(date_max(f))}
    IN {p \in days \X days : DateLE(p[1], p[2])}

\* sorted(df[col].dropna().unique()): the options of a multiselect
Options(f, col, missing) == {f[k][col] : k \in 1..Len(f)} \ {missing}

\* the modelled cases of the radio "Pilih studi kasus"
Cases == {2, 4, 5, 7, 8, 9}

\* the values every widget of the sidebar can take on the table f
Choices(f) ==
    [date_range |-> IF date_min(f) = NA \/ date_max(f) = NA THEN {NA} ELSE DateRanges(f),
     severity |-> SUBSET Severities,
     urban |-> SUBSET Options(f, "urban_or_rural_area", NaN),
     speed_limit |-> SUBSET Options(f, "speed_limit", NA),
     weather |-> SUBSET Options(f, "weather_conditions", NaN),
     light |-> SUBSET Options(f, "light_conditions", NaN),
     road_type |-> SUBSET Options(f, "road_type", NaN),
     vehicle_type |-> SUBSET Options(f, "vehicle_type", NaN),
     district |-> SUBSET Options(f, "local_authority_district", NaN),
     top_n_district |-> {5, 15, 30},
     case |-> Cases]

\* the widgets as the script builds them (value=, default=) before the user touches them
Defaults(f) ==
    [date_range |-> IF date_min(f) = NA \/ date_max(f) = NA THEN NA ELSE <<date_min(f), date_max(f)>>,
     severity |-> Severities,
     urban |-> {}, speed_limit |-> {}, weather |-> {}, light |-> {}, road_type |-> {},
     vehicle_type |-> {}, district |-> {},
     top_n_district |-> 15,
     case |-> 2]

FilterWidgets == {"date_range", "severity", "urban", "speed_limit", "weather", "light", "road_type",
                  "vehicle_type", "district", "top_n_district"}

\* the widget states with at most n filter widgets away from their default
RECURSIVE Moved(_, _)
Moved(f, n) == IF n = 0 THEN {Defaults(f)}
               ELSE LET fewer == Moved(f, n - 1)
                    IN fewer \cup UNION {{[w EXCEPT ![d] = x] : w \in fewer, x \in Choices(f)[d]} : d \in FilterWidgets}

WidgetStates(f) == {[w EXCEPT !.case = c] : w \in Moved(f, MaxActive), c \in Cases}

\* f[f[col].isin(values)]
isin(f, col, values) == RowsAt(f, {k \in 1..Len(f) : f[k][col] \in values})

\* f[(f["accident_date"] >= start) & (f["accident_date"] <= end)]: a comparison with NaT is False
between_keeping_absent(f, start, end) ==
    RowsAt(f, {k \in 1..Len(f) : \/ f[k].accident_date = NA
                                 \/ /\ DateLE(start, f[k].accident_date)
                                    /\ DateLE(f[k].accident_date, end)})
between(f, start, end) ==
    RowsAt(f, {k \in 1..Len(f) : /\ f[k].accident_date # NA
                                 /\ DateLE(start, f[k].accident_date)
                                 /\ DateLE(f[k].accident_date, end)})

\* `if values: f = f[f[col].isin(values)]`
narrow_rejecting_on_empty(f, col, values) == isin(f, col, values)
narrow(f, col, values) == IF values # {} THEN isin(f, col, values) ELSE f

\* `if date_range: start, end = date_range; f = f[...]`
narrow_dates_open_end(f, date_range) ==
    IF date_range # NA
    THEN RowsAt(f, {k \in 1..Len(f) : /\ f[k].accident_date # NA
                                      /\ DateLE(date_range[1], f[k].accident_date)
                                      /\ DaysFromCivil(f[k].accident_date) < DaysFromCivil(date_range[2])})
    ELSE f
narrow_dates(f, date_range) == IF date_range # NA THEN between(f, date_range[1], date_range[2]) ELSE f

\* lines 376-397: the chain of selections
filter_rows(f, w) ==
    LET f1 == narrow_dates(f, w.date_range)
        f2 == narrow(f1, "accident_severity", w.severity)
        f3 == narrow(f2, "urban_or_rural_area", w.urban)
        f4 == narrow(f3, "speed_limit", w.speed_limit)
        f5 == narrow(f4, "local_authority_district", w.district)
        f6 == narrow(f5, "weather_conditions", w.weather)
        f7 == narrow(f6, "light_conditions", w.light)
        f8 == narrow(f7, "road_type", w.road_type)
    IN narrow(f8, "vehicle_type", w.vehicle_type)

\* lines 399-407: the dictionary returned next to the filtered table
make_selections(w) ==
    [date_range |-> w.date_range, severity |-> w.severity, urban |-> w.urban,
     speed_limit |-> w.speed_limit, district |-> w.district,
     top_n_district |-> w.top_n_district, case |-> w.case]

apply_filters_in_place ==
    /\ pc = "loaded"
    /\ \E w \in WidgetStates(df) :
          /\ widgets' = w
          /\ df' = filter_rows(df, w)
          /\ df_filt' = filter_rows(df, w)
          /\ selections' = make_selections(w)
    /\ pc' = "filtered"
    /\ UNCHANGED <<names, source, cache, transforms, reruns, cleaning_stats, view>>

apply_filters ==
    /\ pc = "loaded"
    /\ \E w \in WidgetStates(df) :
          /\ widgets' = w
          /\ df_filt' = filter_rows(df, w)
          /\ selections' = make_selections(w)
    /\ pc' = "filtered"
    /\ UNCHANGED <<names, source, cache, transforms, reruns, df, cleaning_stats, view>>

---------------------------------------------------------------------------
(* Case aggregators *)

\* Series.value_counts(): the number of rows per value of a column (missing values dropped)
CountOf(f, col, v) == Cardinality({k \in 1..Len(f) : f[k][col] = v})
Values(f, col, missing) == {f[k][col] : k \in 1..Len(f)} \ {missing}

\* value_counts().reindex(["Fatal", "Serious", "Slight"], fill_value=0).reset_index()
SeverityOrder == <<Fatal, Serious, Slight>>
severity_composition_present_only(f) ==
    LET present == SelectSeq(SeverityOrder, LAMBDA v : v \in Values(f, "accident_severity", NaN))
    IN [i \in 1..Len(present) |->
           [accident_severity |-> present[i], count |-> CountOf(f, "accident_severity", present[i])]]
severity_composition(f) ==
    [i \in 1..Len(SeverityOrder) |->
        [accident_severity |-> SeverityOrder[i],
         count |-> IF SeverityOrder[i] \in Values(f, "accident_severity", NaN)
                   THEN CountOf(f, "accident_severity", SeverityOrder[i]) ELSE 0]]

\* groupby([col, "accident_severity"]).size(): one count per pair that occurs
GroupSizes(f, col, missing) ==
    {[group |-> g, accident_severity |-> v,
      count |-> Cardinality({k \in 1..Len(f) : f[k][col] = g /\ f[k].accident_severity = v})] :
     g \in Values(f, col, missing), v \in Values(f, "accident_severity", NaN)}
group_sizes(f, col, missing) == {c \in GroupSizes(f, col, missing) : c.count > 0}

\* the sum of a set of counts
RECURSIVE SumCounts(_)
SumCounts(C) == IF C = {} THEN 0 ELSE LET c == CHOOSE x \in C : TRUE IN c.count + SumCounts(C \ {c})

\* pivot.get(v, 0) on the row of group g
pivot_get(g_sizes, g, v) == SumCounts({c \in g_sizes : c.group = g /\ c.accident_severity = v})

\* pivot["total"] = pivot.sum(axis=1): the sum over every severity column
pivot_total_of_three(g_sizes, g) == pivot_get(g_sizes, g, Fatal) + pivot_get(g_sizes, g, Serious) + pivot_get(g_sizes, g, Slight)
pivot_total(g_sizes, g) == SumCounts({c \in g_sizes : c.group = g})

\* the pivot table with total and severe_rate_% = 100 * (Fatal + Serious) / total;
\* the rate is kept exact, as numerator and denominator
severe_rate_rows(g_sizes) ==
    {[group |-> g,
      total |-> pivot_total(g_sizes, g),
      severe_rate |-> <<100 * (pivot_get(g_sizes, g, Fatal) + pivot_get(g_sizes, g, Serious)),
                        pivot_total(g_sizes, g)>>] :
     g \in {c.group : c \in g_sizes}}

\* the orders sort_values can give the rows
RateGE(a, b) == a.severe_rate[1] * b.severe_rate[2] >= b.severe_rate[1] * a.severe_rate[2]
Orderings(R) == {q \in [1..Cardinality(R) -> R] : \A i, j \in 1..Cardinality(R) : i # j => q[i] # q[j]}
ByRateDescending(R) == {q \in Orderings(R) : \A i \in 1..(Len(q) - 1) : RateGE(q[i], q[i + 1])}
BySpeedLimit(R) == {q \in Orderings(R) : \A i \in 1..(Len(q) - 1) : q[i].group[1] < q[i + 1].group[1]}
\* case 4 sorts by speed_limit, cases 7 and 9 by severe_rate_% descending
SortedRows(n, R) == IF n = 4 THEN BySpeedLimit(R) ELSE ByRateDescending(R)

\* case "2) Komposisi severity"
case_2 ==
    /\ pc = "filtered"
    /\ selections.case = 2
    /\ view' = [case |-> 2, info |-> FALSE, table |-> severity_composition(df_filt)]
    /\ pc' = "rendered"
    /\ UNCHANGED <<names, source, cache, transforms, reruns, df, cleaning_stats, df_filt, widgets, selections>>

\* a case that charts the severe rate of the groups of one column
severe_rate_case(n, col, missing) ==
    /\ pc = "filtered"
    /\ selections.case = n
    /\ LET g == group_sizes(df_filt, col, missing)
       IN IF g = {}
          THEN view' = [case |-> n, info |-> TRUE, table |-> <<>>]
          ELSE \E q \in SortedRows(n, severe_rate_rows(g)) : view' = [case |-> n, info |-> FALSE, table |-> q]
    /\ pc' = "rendered"
    /\ UNCHANGED <<names, source, cache, transforms, reruns, df, cleaning_stats, df_filt, widgets, selections>>

\* case "4) Speed limit vs severity": dropna(subset=["speed_limit"]) is the drop of the missing group
case_4 == severe_rate_case(4, "speed_limit", NA)
\* case "7) Road surface"
case_7 == severe_rate_case(7, "road_surface_conditions", NaN)
\* case "9) Urban vs Rural"
case_9 == severe_rate_case(9, "urban_or_rural_area", NaN)

\* Series.fillna(value) on one column
fillna(f, col, value) == [k \in 1..Len(f) |-> IF f[k][col] = NaN THEN [f[k] EXCEPT ![col] = value] ELSE f[k]]

\* value_counts().head(n).index.tolist(): the n most frequent values of the column
\* (all of them when there are fewer); which of several equally frequent values
\* come first is left to the sort of pandas
top_values_of_whole_table(f, col, n) ==
    LET V == Values(df, col, NaN)
        size == IF Cardinality(V) < n THEN Cardinality(V) ELSE n
    IN {K \in SUBSET V : /\ Cardinality(K) = size
                         /\ \A k \in K, o \in V \ K : CountOf(df, col, k) >= CountOf(df, col, o)}
top_values(f, col, n) ==
    LET V == Values(f, col, NaN)
        size == IF Cardinality(V) < n THEN Cardinality(V) ELSE n
    IN {K \in SUBSET V : /\ Cardinality(K) = size
                         /\ \A k \in K, o \in V \ K : CountOf(f, col, k) >= CountOf(f, col, o)}

\* the values the sliders "Top-N weather ditampilkan" (5..20, default 10) and
\* "Top-N vehicle ditampilkan" (5..25, default 12) take in the model
TopWeatherChoices == {5, 10}
TopVehicleChoices == {5, 12}

\* a case that charts the counts per severity of the top-N values of one column
top_n_case(n, col, w, choices) ==
    /\ pc = "filtered"
    /\ selections.case = n
    /\ \E top_n \in choices : \E top \in top_values(w, col, top_n) :
          LET g == group_sizes(isin(w, col, top), col, NaN)
          IN view' = [case |-> n, info |-> g = {}, table |-> g, top_n |-> top_n]
    /\ pc' = "rendered"
    /\ UNCHANGED <<names, source, cache, transforms, reruns, df, cleaning_stats, df_filt, widgets, selections>>

\* case "5) Cuaca vs severity"
case_5 == top_n_case(5, "weather_conditions", fillna(df_filt, "weather_conditions", Unknown), TopWeatherChoices)
\* case "8) Vehicle type"
case_8 == top_n_case(8, "vehicle_type", df_filt, TopVehicleChoices)

---------------------------------------------------------------------------
(* Sources for the dashboard *)

T_serious == <<"s","e","r","i","o","u","s">>
T_minor == <<"m","i","n","o","r">>
PoolRows ==
    <<[key |-> <<"A">>, accident_severity |-> Fatal, accident_date |-> T_30_12_2020,
       day_of_week |-> Wednesday, urban_or_rural_area |-> T_Urban, speed_limit |-> T_30,
       local_authority_district |-> T_Leeds, weather_conditions |-> T_Fine,
       light_conditions |-> T_Daylight, road_type |-> T_Single, vehicle_type |-> T_Car,
       road_surface_conditions |-> T_Dry],
      [key |-> <<"B">>, accident_severity |-> T_serious, accident_date |-> T_31_12_2020,
       day_of_week |-> <<>>, urban_or_rural_area |-> T_Rural, speed_limit |-> T_60,
       local_authority_district |-> T_York, weather_conditions |-> T_Rain,
       light_conditions |-> T_Dark, road_type |-> T_Dual, vehicle_type |-> T_Van,
       road_surface_conditions |-> T_Wet],
      [key |-> <<"C">>, accident_severity |-> T_minor, accident_date |-> T_31_12_2020,
       day_of_week |-> <<>>, urban_or_rural_area |-> T_Urban, speed_limit |-> <<>>,
       local_authority_district |-> T_Leeds, weather_conditions |-> <<>>,
       light_conditions |-> T_Daylight, road_type |-> T_Dual, vehicle_type |-> T_Car,
       road_surface_conditions |-> T_Wet],
      [key |-> <<"D">>, accident_severity |-> Slight, accident_date |-> T_01_01_2021,
       day_of_week |-> Friday, urban_or_rural_area |-> T_Rural, speed_limit |-> T_29_5,
       local_authority_district |-> T_York, weather_conditions |-> T_Fine,
       light_conditions |-> T_Dark, road_type |-> T_Single, vehicle_type |-> T_Van,
       road_surface_conditions |-> T_Dry],
      [key |-> <<"E">>, accident_severity |-> fetal, accident_date |-> <<>>,
       day_of_week |-> Sunday, urban_or_rural_area |-> T_Rural, speed_limit |-> T_60,
       local_authority_district |-> T_Leeds, weather_conditions |-> T_Rain,
       light_conditions |-> T_Dark, road_type |-> T_Single, vehicle_type |-> T_Car,
       road_surface_conditions |-> T_Dry]>>

\* a file with six values of one categorical column: the first in one Fatal row,
\* the others in Slight rows, the last of them twice
T_Snow == <<"S","n","o","w">>
T_Fog == <<"F","o","g">>
T_Wind == <<"W","i","n","d">>
T_Hail == <<"H","a","i","l">>
T_Bus == <<"B","u","s">>
T_Taxi == <<"T","a","x","i">>
T_Bike == <<"B","i","k","e">>
T_Lorry == <<"L","o","r","r","y">>
TopNWeather == <<T_Fine, T_Rain, T_Snow, T_Fog, T_Wind, T_Hail>>
TopNVehicle == <<T_Car, T_Van, T_Bus, T_Taxi, T_Bike, T_Lorry>>
TopNRows(col, values) ==
    [i \in 1..7 |->
        [BaseRow EXCEPT !.key = <<UpperLetters[i]>>,
                        !.accident_severity = IF i = 1 THEN Fatal ELSE Slight,
                        ![col] = values[IF i = 7 THEN 6 ELSE i]]]

\* the first rows of the pool (the empty file among them), its last row alone (a
\* file without any parsed date), and the two files with six categories
DashboardSources == {[key_header |-> T_Accident_Index, rows |-> SubSeq(PoolRows, 1, n)] : n \in 0..Len(PoolRows)}
                    \cup {[key_header |-> T_Accident_Index, rows |-> SubSeq(PoolRows, Len(PoolRows), Len(PoolRows))]}
                    \cup {[key_header |-> T_Accident_Index, rows |-> TopNRows("weather_conditions", TopNWeather)],
                          [key_header |-> T_Accident_Index, rows |-> TopNRows("vehicle_type", TopNVehicle)]}

Init == StartOn(DashboardSources)
Next == load_and_clean \/ apply_filters \/ case_2 \/ case_4 \/ case_5 \/ case_7 \/ case_8 \/ case_9 \/ rerun
Spec == Init /\ [][Next]_vars

---------------------------------------------------------------------------
(* Vocabulary of the properties, stated without the operators of the code *)

LetterIndex(c) == IF IsLower(c) THEN CHOOSE i \in 1..26 : LowerLetters[i] = c
                  ELSE IF IsUpper(c) THEN CHOOSE i \in 1..26 : UpperLetters[i] = c
                  ELSE 0
SameIgnoringCase(c, d) == c = d \/ (LetterIndex(c) > 0 /\ LetterIndex(c) = LetterIndex(d))
\* x is w up to the case of its letters
MatchesIgnoringCase(x, w) == Len(x) = Len(w) /\ \A i \in 1..Len(w) : SameIgnoringCase(x[i], w[i])
\* the part of x between its leading and its trailing whitespace
Trimmed(x) == LET solid == {i \in 1..Len(x) : x[i] \notin Whitespace}
              IN IF solid = {} THEN <<>>
                 ELSE SubSeq(x, CHOOSE i \in solid : \A j \in solid : i <= j,
                                CHOOSE i \in solid : \A j \in solid : j <= i)
\* w occurs in x up to the case of its letters
OccursIgnoringCase(x, w) == \E i \in 1..(Len(x) - Len(w) + 1) : MatchesIgnoringCase(SubSeq(x, i, i + Len(w) - 1), w)

\* the raw record (as read from the file) that a cleaned record comes from
RawOf(r) == read_csv(source.rows)[r.index + 1]
Loaded == pc # "start"

ExpectedSeverity(cell) ==
    IF cell = NaN THEN Unknown
    ELSE IF MatchesIgnoringCase(Trimmed(cell), fetal) THEN Fatal
    ELSE IF \E v \in Severities : MatchesIgnoringCase(Trimmed(cell), v)
         THEN CHOOSE v \in Severities : MatchesIgnoringCase(Trimmed(cell), v)
    ELSE Unknown

ExpectedCategory(cell) ==
    IF cell = NaN THEN Unknown
    ELSE IF \/ Trimmed(cell) = <<>>
            \/ \E w \in {w_nan, w_none, w_null} : MatchesIgnoringCase(Trimmed(cell), w)
            \/ OccursIgnoringCase(cell, w_missing)
            \/ OccursIgnoringCase(cell, w_out_of_range)
         THEN Unknown
    ELSE Trimmed(cell)

---------------------------------------------------------------------------
(* C1 *)

\* C1: the accident_severity of every cleaned record is Fatal, Serious, Slight or
\* Unknown: Unknown for a missing cell, Fatal for any case and whitespace variant
\* of "fetal", the canonical spelling for a case-insensitive match of it (after
\* trimming), Unknown for everything else.
C1_SeverityRepair ==
    Loaded => \A k \in 1..Len(df) :
        /\ df[k].accident_severity \in Severities \cup {Unknown}
        /\ df[k].accident_severity = ExpectedSeverity(RawOf(df[k]).accident_severity)

\* a padded, mixed-case "fetal" has been cleaned to Fatal
C1_Witness ==
    /\ pc = "loaded"
    /\ Len(df) = 1
    /\ source.rows[1].accident_severity = <<" ","F","e","T","A","L","\t">>
    /\ df[1].accident_severity = Fatal

---------------------------------------------------------------------------
(* C2 *)

\* C2: after load_and_clean the day_of_week of every record is one of Monday..Sunday
\* or the value "Unknown", never missing: the repaired source field when that is
\* not "Unknown", else the weekday of the parsed date, else "Unknown"; a resolved
\* value outside the seven days becomes "Unknown".
C2_DayOfWeekDomain ==
    Loaded => \A k \in 1..Len(df) :
        LET c == ExpectedCategory(RawOf(df[k]).day_of_week)
            v == IF c # Unknown THEN c
                 ELSE IF df[k].accident_date # NA THEN df[k].day_name
                 ELSE Unknown
        IN /\ df[k].day_of_week \in DowSet \cup {Unknown}
           /\ df[k].day_of_week = IF v \in DowSet THEN v ELSE Unknown

---------------------------------------------------------------------------
(* C3 *)

FirstOccurrences(raw) == {i \in 1..Len(raw) : \A j \in 1..Len(raw) : j < i => raw[j].key # raw[i].key}

\* C3: with the accident_index column present the cleaned table holds exactly the
\* first occurrence of every key, in the order of the file; duplicates_accident_index
\* counts the rows beyond the first of their key and rows_clean = rows_raw -
\* duplicates_accident_index.  With the column absent every row is kept and the
\* count is 0.
C3_Deduplication ==
    Loaded =>
        LET raw == read_csv(source.rows)
            first == FirstOccurrences(raw)
        IN /\ cleaning_stats.rows_raw = Len(raw)
           /\ cleaning_stats.rows_clean = Len(df)
           /\ \A k \in 1..(Len(df) - 1) : df[k].index < df[k + 1].index
           /\ \A k \in 1..Len(df) : df[k].key = raw[df[k].index + 1].key
           /\ IF source.key_header \in IndexHeaders
              THEN /\ {df[k].index + 1 : k \in 1..Len(df)} = first
                   /\ cleaning_stats.duplicates_accident_index = Len(raw) - Cardinality(first)
                   /\ cleaning_stats.rows_clean = cleaning_stats.rows_raw - cleaning_stats.duplicates_accident_index
              ELSE /\ {df[k].index + 1 : k \in 1..Len(df)} = 1..Len(raw)
                   /\ cleaning_stats.duplicates_accident_index = 0

\* the keys A, A, B, A have been cleaned to A, B: rows 0 and 2 of the file
C3_Witness ==
    /\ pc = "loaded"
    /\ source.key_header \in IndexHeaders
    /\ [i \in 1..Len(source.rows) |-> source.rows[i].key] = <<<<"A">>, <<"A">>, <<"B">>, <<"A">>>>
    /\ [k \in 1..Len(df) |-> df[k].index] = <<0, 2>>
    /\ cleaning_stats.duplicates_accident_index = 2

---------------------------------------------------------------------------
(* C7 *)

\* C7: every cell of a listed categorical column is cleaned to "Unknown" when it is
\* missing, empty after trimming, nan/none/null in any case, or contains "missing"
\* or "out of range" in any case, and to its trimmed text, case kept, otherwise; so
\* no listed categorical field of a cleaned record is missing.
C7_CategoryRepair ==
    Loaded => \A k \in 1..Len(df) : \A c \in cat_cols :
        /\ df[k][c] = ExpectedCategory(RawOf(df[k])[c])
        /\ df[k][c] # NaN

\* a padded ordinary value has been kept, trimmed, with its case; elsewhere a
\* mixed-case placeholder has become Unknown
C7_Witness ==
    /\ pc = "loaded"
    /\ Len(df) = 1
    /\ \/ source.rows[1].weather_conditions = <<" ","d","R","y","\t">> /\ df[1].weather_conditions = <<"d","R","y">>
       \/ source.rows[1].weather_conditions = <<"D","a","t","a"," ","m","i","s","s","i","n","g"," ","o","r"," ","o","u","t"," ","o","f"," ","r","a","n","g","e">> /\ df[1].weather_conditions = Unknown

---------------------------------------------------------------------------
(* C8 *)

\* C8: in every cleaned record each of year, month, month_num and day_name is
\* absent exactly when accident_date is absent, and accident_date is absent
\* exactly when the source cell is missing or does not parse as day-month-year;
\* those records are the ones date_parse_na counts.
C8_DerivedAbsentIffDateAbsent ==
    Loaded =>
        /\ \A k \in 1..Len(df) :
              /\ (df[k].year = NA) <=> (df[k].accident_date = NA)
              /\ (df[k].month_num = NA) <=> (df[k].accident_date = NA)
              /\ (df[k].day_name = NaN) <=> (df[k].accident_date = NA)
              /\ (df[k].month = NaN) <=> (df[k].accident_date = NA)
              /\ (df[k].accident_date = NA) <=> (to_datetime(RawOf(df[k]).accident_date) = NA)
        /\ cleaning_stats.date_parse_na = Cardinality({k \in 1..Len(df) : df[k].accident_date = NA})

---------------------------------------------------------------------------
(* C4 and C5 *)

Filtered == pc \in {"filtered", "rendered"}

\* a dimension with the accepted set A accepts the value v
DimensionAccepts(A, v) == A = {} \/ v \in A

\* the eight set-valued dimensions accept the record r
SetsAccept(w, r) ==
    /\ DimensionAccepts(w.severity, r.accident_severity)
    /\ DimensionAccepts(w.urban, r.urban_or_rural_area)
    /\ DimensionAccepts(w.speed_limit, r.speed_limit)
    /\ DimensionAccepts(w.district, r.local_authority_district)
    /\ DimensionAccepts(w.weather, r.weather_conditions)
    /\ DimensionAccepts(w.light, r.light_conditions)
    /\ DimensionAccepts(w.road_type, r.road_type)
    /\ DimensionAccepts(w.vehicle_type, r.vehicle_type)

\* the date dimension accepts the record r
InInterval(d, range) == DaysFromCivil(range[1]) <= DaysFromCivil(d) /\ DaysFromCivil(d) <= DaysFromCivil(range[2])
DateAccepts(w, r) == w.date_range = NA \/ (r.accident_date # NA /\ InInterval(r.accident_date, w.date_range))

InFiltered(r) == \E j \in 1..Len(df_filt) : df_filt[j] = r

\* C4: apply_filters returns exactly the records that satisfy every populated
\* dimension, in their order in the table; an empty accepted set imposes no
\* constraint and a non-empty one keeps a record iff its value is in the set.
C4_FilterSemantics ==
    Filtered =>
        /\ \A k \in 1..Len(df) : InFiltered(df[k]) <=> (SetsAccept(widgets, df[k]) /\ DateAccepts(widgets, df[k]))
        /\ \A j \in 1..Len(df_filt) : \E k \in 1..Len(df) : df[k] = df_filt[j]
        /\ \A j \in 1..(Len(df_filt) - 1) : df_filt[j].index < df_filt[j + 1].index

\* a weather filter of one value with every other set empty has kept the records
\* of that weather and dropped another record
C4_Witness ==
    /\ pc = "filtered"
    /\ widgets.weather = {T_Rain}
    /\ widgets.urban = {} /\ widgets.light = {} /\ widgets.district = {}
    /\ Len(df_filt) >= 1
    /\ \A j \in 1..Len(df_filt) : df_filt[j].weather_conditions = T_Rain
    /\ \E k \in 1..Len(df) : df[k].weather_conditions = T_Fine /\ df[k].accident_date # NA
                            /\ df[k].accident_severity \in Severities

\* C5: with a date interval applied, a record that has a date (and passes the
\* other dimensions) is kept iff start <= accident_date <= end, both ends
\* included; when no record of the table has a parsed date no interval is applied
\* and the date dimension removes no record.
C5_DateDimension ==
    Filtered =>
        /\ widgets.date_range # NA =>
              \A k \in 1..Len(df) :
                 (df[k].accident_date # NA /\ SetsAccept(widgets, df[k])) =>
                    (InFiltered(df[k]) <=> InInterval(df[k].accident_date, widgets.date_range))
        /\ (\A k \in 1..Len(df) : df[k].accident_date = NA) =>
              /\ widgets.date_range = NA
              /\ selections.date_range = NA
              /\ \A k \in 1..Len(df) : SetsAccept(widgets, df[k]) => InFiltered(df[k])

\* the interval 31-12-2020 .. 01-01-2021 has kept the records of both end days and
\* dropped the record of the day before
C5_Witness ==
    /\ pc = "filtered"
    /\ widgets.date_range = <<<<2020, 12, 31>>, <<2021, 1, 1>>>>
    /\ \E j \in 1..Len(df_filt) : df_filt[j].accident_date = <<2020, 12, 31>>
    /\ \E j \in 1..Len(df_filt) : df_filt[j].accident_date = <<2021, 1, 1>>
    /\ \E k \in 1..Len(df) : df[k].accident_date = <<2020, 12, 30>> /\ ~InFiltered(df[k])

---------------------------------------------------------------------------
(* C6 *)

Rendered(n) == pc = "rendered" /\ view.case = n
NumberWith(f, sevs) == Cardinality({j \in 1..Len(f) : f[j].accident_severity \in sevs})

\* C6 as stated: aggregator 2 returns three rows, Fatal, Serious, Slight, a missing
\* severity with count 0, and the counts sum to the size of the filtered collection.
C6_CountsSumToFilteredTotal ==
    Rendered(2) =>
        /\ [i \in 1..Len(view.table) |-> view.table[i].accident_severity] = <<Fatal, Serious, Slight>>
        /\ \A i \in 1..3 : view.table[i].count = NumberWith(df_filt, {view.table[i].accident_severity})
        /\ view.table[1].count + view.table[2].count + view.table[3].count = Len(df_filt)

\* C6, amended: aggregator 2 returns three rows, Fatal, Serious, Slight, a missing
\* severity with count 0, and the counts sum to the number of records of the
\* filtered collection whose severity is not Unknown: the whole collection
\* whenever the severity filter is not empty.
C6_CountsSumToKnownSeverities ==
    Rendered(2) =>
        /\ [i \in 1..Len(view.table) |-> view.table[i].accident_severity] = <<Fatal, Serious, Slight>>
        /\ \A i \in 1..3 : view.table[i].count = NumberWith(df_filt, {view.table[i].accident_severity})
        /\ view.table[1].count + view.table[2].count + view.table[3].count
              = Len(df_filt) - NumberWith(df_filt, {Unknown})
        /\ widgets.severity # {} =>
              view.table[1].count + view.table[2].count + view.table[3].count = Len(df_filt)

\* case 2 has reported a severity that the filtered records lack with count 0
C6_Witness ==
    /\ Rendered(2)
    /\ Len(df_filt) = 2
    /\ view.table[1].count = 1 /\ view.table[2].count = 1 /\ view.table[3].count = 0

---------------------------------------------------------------------------
(* C9 *)

InGroup(f, col, g) == {j \in 1..Len(f) : f[j][col] = g}
GroupColumn(n) == IF n = 4 THEN "speed_limit" ELSE IF n = 7 THEN "road_surface_conditions" ELSE "urban_or_rural_area"

\* C9: in aggregators 4, 7 and 9 every group of the filtered collection gets
\* severe rate = 100 * (Fatal + Serious) / total, total counting every record of
\* the group; the rate lies in [0, 100], and no group has total 0.
C9_SevereRate ==
    (pc = "rendered" /\ view.case \in {4, 7, 9}) =>
        LET col == GroupColumn(view.case)
            missing == IF view.case = 4 THEN NA ELSE NaN
        IN /\ {view.table[i].group : i \in 1..Len(view.table)}
                 = {df_filt[j][col] : j \in 1..Len(df_filt)} \ {missing}
           /\ \A i, j \in 1..Len(view.table) : i # j => view.table[i].group # view.table[j].group
           /\ \A i \in 1..Len(view.table) :
                 LET members == InGroup(df_filt, col, view.table[i].group)
                     severe == {j \in members : df_filt[j].accident_severity \in {Fatal, Serious}}
                     rate == view.table[i].severe_rate
                 IN /\ view.table[i].total = Cardinality(members)
                    /\ view.table[i].total > 0
                    /\ rate[2] > 0
                    /\ rate[1] * Cardinality(members) = 100 * Cardinality(severe) * rate[2]
                    /\ 0 <= rate[1] /\ rate[1] <= 100 * rate[2]

\* case 7 has rated a road surface with one Serious and one Unknown record at 50 %
C9_Witness ==
    /\ Rendered(7)
    /\ \E i \in 1..Len(view.table) :
          /\ view.table[i].group = T_Wet
          /\ view.table[i].total = 2
          /\ view.table[i].severe_rate = <<100, 2>>
    /\ \E j \in 1..Len(df_filt) : df_filt[j].accident_severity = Unknown /\ df_filt[j].road_surface_conditions = T_Wet

---------------------------------------------------------------------------
(* C10 *)

\* C10: over any sequence of reruns on the same source the body of load_and_clean
\* runs at most once; once it has run, the stored (table, diagnostics) never
\* changes and every later call returns exactly it.
C10_TransformRunsOnce ==
    [][/\ transforms' <= 1
       /\ cache # <<>> =>
             /\ cache' = cache
             /\ transforms' = transforms
             /\ (pc = "start" /\ pc' = "loaded") => (df' = cache[1].df /\ cleaning_stats' = cache[1].stats)]_vars

\* a later run has loaded the table of the first run without a second transform
C10_Witness ==
    /\ reruns >= 1
    /\ pc = "loaded"
    /\ transforms = 1
    /\ Len(df) >= 1
    /\ df = cache[1].df /\ cleaning_stats = cache[1].stats

---------------------------------------------------------------------------
(* C14 *)

\* C14: in every cleaned record severity_score is determined by accident_severity
\* alone: 3 for Fatal, 2 for Serious, 1 for Slight, and it is absent exactly when
\* accident_severity is Unknown.
C14_SeverityScore ==
    Loaded =>
        \A k \in 1..Len(df) :
            /\ df[k].accident_severity = Fatal => df[k].severity_score = <<3>>
            /\ df[k].accident_severity = Serious => df[k].severity_score = <<2>>
            /\ df[k].accident_severity = Slight => df[k].severity_score = <<1>>
            /\ df[k].severity_score = NA <=> df[k].accident_severity = Unknown

\* a cell that is no severity has been cleaned to Unknown, without a score
C14_Witness ==
    /\ pc = "loaded"
    /\ Len(df) = 1
    /\ source.rows[1].accident_severity = <<"M","i","n","o","r">>
    /\ df[1].accident_severity = Unknown
    /\ df[1].severity_score = NA

---------------------------------------------------------------------------
(* C13 *)

\* the canonical form of a header: lower-case letters, digits and underscores,
\* no two underscores in a row, no underscore at either end
Canonical(h) ==
    /\ \A i \in 1..Len(h) : IsLower(h[i]) \/ IsDigit(h[i]) \/ h[i] = "_"
    /\ \A i \in 1..(Len(h) - 1) : ~(h[i] = "_" /\ h[i + 1] = "_")
    /\ h # <<>> => h[1] # "_" /\ h[Len(h)] # "_"

\* C13: _snake_case is idempotent, _snake_case(_snake_case(h)) = _snake_case(h) for
\* every header h, and its output holds only lower-case letters, digits and single
\* underscores, with no underscore at the start or at the end.
C13_SnakeCaseIdempotent ==
    /\ Len(names) >= 2 => Canonical(names[2])
    /\ Len(names) >= 3 => names[3] = names[2]

\* a header that needed work has been normalized twice
C13_Witness ==
    /\ Len(names) = 3
    /\ names[1] = <<"-", "A", " ", "1">>
    /\ names[2] = <<"a", "_", "1">>
    /\ names[3] = <<"a", "_", "1">>

---------------------------------------------------------------------------
(* C16 *)

\* the column that a top-N case breaks down
TopNColumn == IF view.case = 5 THEN "weather_conditions" ELSE "vehicle_type"
\* how many records of the filtered table carry the category v
Frequency(v) == Cardinality({k \in 1..Len(df_filt) : df_filt[k][TopNColumn] = v})
\* the categories of the filtered table and those of the rendered breakdown
PresentCategories == {df_filt[k][TopNColumn] : k \in 1..Len(df_filt)}
KeptCategories == {c.group : c \in view.table}

\* C16: cases 5 and 8 take their top-N categories from the filtered table: the
\* breakdown holds at most N categories (all of them when no more than N occur),
\* every category kept is at least as frequent in the filtered table as every
\* category left out, and the per-severity counts of a kept category sum to its
\* frequency in the filtered table.
C16_TopNOfFilteredSubset ==
    (pc = "rendered" /\ view.case \in {5, 8}) =>
        /\ Cardinality(KeptCategories) <= view.top_n
        /\ KeptCategories \subseteq PresentCategories
        /\ Cardinality(PresentCategories) <= view.top_n => KeptCategories = PresentCategories
        /\ \A k \in KeptCategories : \A o \in PresentCategories \ KeptCategories : Frequency(k) >= Frequency(o)
        /\ \A k \in KeptCategories : SumCounts({c \in view.table : c.group = k}) = Frequency(k)

\* six weather conditions are in the filtered table, Hail twice and the others
\* once; the top 5 keep Hail and leave one of the others out
C16_Witness ==
    /\ pc = "rendered"
    /\ view.case = 5
    /\ view.top_n = 5
    /\ Cardinality(PresentCategories) = 6
    /\ Frequency(T_Hail) = 2
    /\ T_Hail \in KeptCategories
    /\ Cardinality(KeptCategories) = 5

---------------------------------------------------------------------------
(* C11 *)

\* C11: apply_filters leaves the cleaned table as load_and_clean returned it, in
\* the first run and in every later run, whatever the filter specification; and
\* the subset it returns is the one that specification selects from that table,
\* whatever calls came before.
C11_FilterLeavesTableUnchanged ==
    Filtered =>
        /\ df = cache[1].df
        /\ df_filt = SelectSeq(cache[1].df, LAMBDA r : SetsAccept(widgets, r) /\ DateAccepts(widgets, r))

\* a second call, in a later run, has dropped three records of five
C11_Witness ==
    /\ reruns >= 1
    /\ pc = "filtered"
    /\ widgets.urban = {T_Rural}
    /\ Len(df) = 5
    /\ Len(df_filt) = 2
    /\ df = cache[1].df

---------------------------------------------------------------------------
(* C12 *)

\* C12: when the filtered collection is empty the rendered case gives an explicit
\* no-data signal (and no failure), whichever case is selected.
C12_EmptyGivesNoDataSignal ==
    (pc = "rendered" /\ df_filt = <<>>) => view.info = TRUE

---------------------------------------------------------------------------
(* C15 *)

\* the accepted set that the returned specification records for a dimension;
\* a dimension it does not record constrains nothing
Recorded(dimension) == IF dimension \in DOMAIN selections THEN selections[dimension] ELSE {}
RecordedSpecification ==
    [date_range |-> IF "date_range" \in DOMAIN selections THEN selections.date_range ELSE NA,
     severity |-> Recorded("severity"), urban |-> Recorded("urban"),
     speed_limit |-> Recorded("speed_limit"), district |-> Recorded("district"),
     weather |-> Recorded("weather"), light |-> Recorded("light"),
     road_type |-> Recorded("road_type"), vehicle_type |-> Recorded("vehicle_type")]

\* C15: the specification returned next to the filtered subset records every
\* dimension that was applied, so that filtering the cleaned table by the returned
\* specification alone gives the returned subset.
C15_SelectionsReproduceSubset ==
    Filtered =>
        df_filt = SelectSeq(df, LAMBDA r : SetsAccept(RecordedSpecification, r) /\ DateAccepts(RecordedSpecification, r))

---------------------------------------------------------------------------
(* C17 *)

\* the records of the cleaned table that have a parsed date
Dated == {k \in 1..Len(df) : df[k].accident_date # NA}

\* C17: when some record of the cleaned table has a parsed date, apply_filters
\* applies a date interval, no record without a date is in the result, and the
\* result is smaller than the table as soon as one date is absent; under the
\* default specification (full range, the three severities, nothing else) the
\* result is the dated records of known severity.
C17_AbsentDatesExcluded ==
    (Filtered /\ Dated # {}) =>
        /\ widgets.date_range # NA
        /\ selections.date_range = widgets.date_range
        /\ \A j \in 1..Len(df_filt) : df_filt[j].accident_date # NA
        /\ Dated # 1..Len(df) => Len(df_filt) < Len(df)
        /\ ( /\ \A k \in Dated : InInterval(df[k].accident_date, widgets.date_range)
             /\ widgets.severity = Severities
             /\ widgets.urban = {} /\ widgets.speed_limit = {} /\ widgets.district = {}
             /\ widgets.weather = {} /\ widgets.light = {} /\ widgets.road_type = {}
             /\ widgets.vehicle_type = {} )
           => df_filt = SelectSeq(df, LAMBDA r : r.accident_date # NA /\ r.accident_severity \in Severities)

\* the default specification on a table of five records, one without a date and
\* one of unknown severity, has returned the other three
C17_Witness ==
    /\ pc = "filtered"
    /\ Len(df) = 5
    /\ df[5].accident_date = NA
    /\ widgets.date_range = <<<<2020, 12, 30>>, <<2021, 1, 1>>>>
    /\ widgets.severity = Severities
    /\ widgets.urban = {} /\ widgets.speed_limit = {} /\ widgets.district = {}
    /\ widgets.weather = {} /\ widgets.light = {} /\ widgets.road_type = {}
    /\ widgets.vehicle_type = {}
    /\ Len(df_filt) = 3

====
